---- MODULE Spec2Model ----
(***************************************************************************)
(* Model of ListnerBot.py: the in-memory process table running_processes,  *)
(* the button callback handler (start / stop / status / info / refresh /   *)
(* settings), the /setup_group command and the OS processes the handler    *)
(* spawns and signals.                                                     *)
(*                                                                         *)
(* Strings that the code splits on '_' are modelled as the sequence of     *)
(* their underscore-free tokens: "start_job_x_mac" is                      *)
(* <<"start","job","x","mac">>.  s.split('_') is then the sequence itself, *)
(* '_'.join(parts) is the sequence parts, and f"{a}_{b}" is a \o b.        *)
(***************************************************************************)
EXTENDS Integers, Sequences, FiniteSets, TLC

VARIABLES
    CURRENT_DEVICE,     \* resolved identity of this instance (line 50)
    config,             \* config["groups"]: chat id -> group configuration
    running_processes,  \* process key -> the recorded Popen handle and its process
    orphans,            \* process key -> number of live children no handle refers to
    pc,                 \* position of the button handler ("idle" = no handler running)
    cur,                \* the stop request the handler is in the middle of
    resp,               \* the last command handled and its outcome
    disk,               \* content of config.json
    tasks               \* callback handlers in flight when updates are handled concurrently

vars == <<CURRENT_DEVICE, config, running_processes, orphans, pc, cur, resp, disk, tasks>>

(***************************************************************************)
(* Bounds                                                                  *)
(***************************************************************************)
MaxProcs == 2          \* number of child processes alive at one time

(***************************************************************************)
(* Environment                                                             *)
(***************************************************************************)
Users == {"op", "guest"}
AUTHORIZED_USER_IDS == {"op"}

Chats == {1, 2}

\* identities the instance can resolve to
DeviceIdentities == {<<"mac">>, <<"mac", "mini">>}

\* files that exist on the device the instance runs on
ExistingPaths == {"/opt/job_x.py"}

Empty == [x \in {} |-> 0]

Put(f, k, v) == [x \in DOMAIN f \cup {k} |-> IF x = k THEN v ELSE f[x]]

Drop(f, k) == [x \in DOMAIN f \ {k} |-> f[x]]

NoCmd == "<absent>"

\* str.upper() on the tokens used as device labels
Upper(t) ==
    CASE t = "mac" -> "MAC"
      [] t = "pc" -> "PC"
      [] t = "legacy" -> "LEGACY"
      [] t = "mini" -> "MINI"
      [] OTHER -> t

\* f"{name} ({device_name.upper()})" on token sequences
ScriptKey(name, dev) ==
    LET n == Len(name)
        d == Len(dev)
        front == SubSeq(name, 1, n - 1)
    IN  IF d = 1
        THEN front \o <<name[n] \o " (" \o Upper(dev[1]) \o ")">>
        ELSE front \o <<name[n] \o " (" \o Upper(dev[1])>>
                   \o [i \in 1..(d - 2) |-> Upper(dev[i + 1])]
                   \o <<Upper(dev[d]) \o ")">>

\* the configuration file the instance is started with
InitialGroups ==
    (1 :> [name |-> "Ops",
           scripts |-> <<
              [name |-> <<"Logger">>, fmt |-> "new",
               devices |-> <<
                  [dev |-> <<"mac">>, kind |-> "obj", path |-> "/mac/logger.py", python_cmd |-> "python3"],
                  [dev |-> <<"pc">>, kind |-> "obj", path |-> "C:/logger.py", python_cmd |-> "python"],
                  [dev |-> <<"mac", "mini">>, kind |-> "str", path |-> "/mini/logger.py", python_cmd |-> NoCmd] >>],
              [name |-> <<"job", "x">>, fmt |-> "old", path |-> "/opt/job_x.py"] >>])

\* the group /setup_group adds (lines 294-316)
ExampleGroup ==
    [name |-> "New",
     scripts |-> <<
        [name |-> <<"Example Script">>, fmt |-> "new",
         devices |-> <<
            [dev |-> <<"mac">>, kind |-> "obj", path |-> "/Users/your-username/path/to/script.py", python_cmd |-> "python3"],
            [dev |-> <<"pc">>, kind |-> "obj", path |-> "C:/Users/your-username/path/to/script.py", python_cmd |-> "python"] >>] >>]

(***************************************************************************)
(* Script Registry                                                         *)
(***************************************************************************)
get_group_config(chat_id) ==
    IF chat_id \in DOMAIN config THEN config[chat_id] ELSE Empty

RECURSIVE AddDevices(_, _, _)
AddDevices(scripts, script, i) ==
    IF i > Len(script.devices) THEN scripts
    ELSE LET d == script.devices[i]
             info == [path |-> d.path, device |-> d.dev,
                      python_cmd |-> IF d.kind = "obj" THEN d.python_cmd ELSE NoCmd]
         IN  AddDevices(Put(scripts, ScriptKey(script.name, d.dev), info), script, i + 1)

RECURSIVE AddScripts(_, _, _)
AddScripts(scripts, list, i) ==
    IF i > Len(list) THEN scripts
    ELSE LET script == list[i]
         IN  IF script.fmt = "old"
             THEN AddScripts(Put(scripts, script.name,
                                 [path |-> script.path, device |-> <<"legacy">>, python_cmd |-> NoCmd]),
                             list, i + 1)
             ELSE AddScripts(AddDevices(scripts, script, 1), list, i + 1)

get_scripts_for_group(chat_id) ==
    IF chat_id \notin DOMAIN config THEN Empty
    ELSE AddScripts(Empty, config[chat_id].scripts, 1)

(***************************************************************************)
(* Process Registry                                                        *)
(***************************************************************************)
\* Popen.poll() is None
Alive(process) == process.status = "alive"

\* process_key in running_processes and running_processes[process_key].poll() is None
is_running(process_key) ==
    /\ process_key \in DOMAIN running_processes
    /\ Alive(running_processes[process_key])

\* subprocess.Popen([python_cmd, path]): the handle of a new child, with the
\* signals sent to it so far
Popen(python_cmd, path, device) ==
    [status |-> "alive", sig |-> <<>>, cmd |-> python_cmd, path |-> path, device |-> device]

\* The registry entry of process_key is overwritten or deleted: a child that
\* is still alive when the last reference to its handle goes keeps running
\* with no handle.
Unreferenced(process_key) ==
    IF is_running(process_key)
    THEN Put(orphans, process_key,
             IF process_key \in DOMAIN orphans THEN orphans[process_key] + 1 ELSE 1)
    ELSE orphans

RECURSIVE Total(_)
Total(f) ==
    IF DOMAIN f = {} THEN 0
    ELSE LET k == CHOOSE x \in DOMAIN f : TRUE IN f[k] + Total(Drop(f, k))

\* number of live children of this instance
LiveCount ==
    Cardinality({k \in DOMAIN running_processes : Alive(running_processes[k])}) + Total(orphans)

(***************************************************************************)
(* Inputs of the handlers                                                  *)
(***************************************************************************)
\* script names and device tokens an operator's client can put in a payload
PayloadNames == {<<"Logger (MAC)">>, <<"Logger (PC)">>, <<"job", "x">>}

PayloadDevices == {"mac", "pc"}

Payloads ==
    {<<a>> \o n \o <<d>> : a \in {"start", "stop"}, n \in PayloadNames, d \in PayloadDevices}
    \cup {<<"status", "Logger (MAC)", "mac">>, <<"info", "Logger (PC)", "pc">>,
          <<"refresh">>, <<"settings">>, <<"device", "info", "mac">>,
          <<"select", "device", "pc">>, <<"start", "mac">>}

\* behaviour of the transport during one handler step:
\*   "ok"    every call succeeds
\*   "edit1" the first edit_message_text raises, later ones succeed
\*   "edits" every edit_message_text raises
Transport == {"ok", "edit1", "edits"}

\* an edit_message_text outside any try block
Edit(tx, r) == IF tx = "ok" THEN r ELSE "Raised"

\* an edit_message_text inside try, whose except clause edits again with failr
EditTry(tx, r, failr) ==
    IF tx = "ok" THEN r ELSE IF tx = "edit1" THEN failr ELSE "Raised"

(***************************************************************************)
(* Payload parsing (lines 447-453, 472-477, 494-499, 529-536)              *)
(***************************************************************************)
Kind(data) ==
    IF data = <<"refresh">> THEN "refresh"
    ELSE IF data = <<"settings">> THEN "settings"
    ELSE IF Len(data) >= 3 /\ data[1] = "device" /\ data[2] = "info" THEN "device_info"
    ELSE IF Len(data) >= 2 /\ data[1] = "status" THEN "status"
    ELSE IF Len(data) >= 2 /\ data[1] = "info" THEN "info"
    ELSE IF Len(data) >= 2 /\ data[1] = "start" THEN "start"
    ELSE IF Len(data) >= 2 /\ data[1] = "stop" THEN "stop"
    ELSE "other"

\* action_data[n:].split('_') for the one-token prefixes
Parts(data) == Tail(data)

\* parts[-1]
DeviceOf(parts) == <<parts[Len(parts)]>>

\* variant: the name ends at the first underscore
ScriptNameOf_FirstToken(parts) == <<parts[1]>>

\* '_'.join(parts[:-1])
ScriptNameOf(parts) == SubSeq(parts, 1, Len(parts) - 1)

\* f"{script_name}_{device}"
ProcessKey(script_name, device) == script_name \o device

\* script_info.get("python_cmd", "python3")
PythonCmd(script_info) ==
    IF script_info.python_cmd = NoCmd THEN "python3" ELSE script_info.python_cmd

(***************************************************************************)
(* create_control_panel (lines 114-172).  The keyboard is modelled as the  *)
(* set of its rows, each with the descriptor it was built from; the order  *)
(* of the rows is left out.                                                *)
(***************************************************************************)
InlineKeyboardButton(text, callback_data) == [text |-> text, data |-> callback_data]

Row(script_name, device, buttons) ==
    [script |-> script_name, device |-> device, buttons |-> buttons]

\* if device == CURRENT_DEVICE or device == "legacy" (line 147)
ShowsControls(device) == device = CURRENT_DEVICE \/ device = <<"legacy">>

\* the row of one descriptor (lines 141-164)
ScriptRow(script_name, script_info) ==
    LET device == script_info.device
        process_key == ProcessKey(script_name, device)
        id == script_name \o device
    IN  Row(script_name, device,
            IF ShowsControls(device)
            THEN IF is_running(process_key)
                 THEN << InlineKeyboardButton("Stop", <<"stop">> \o id),
                         InlineKeyboardButton("Running", <<"status">> \o id) >>
                 ELSE << InlineKeyboardButton("Start", <<"start">> \o id),
                         InlineKeyboardButton("Stopped", <<"status">> \o id) >>
            ELSE << InlineKeyboardButton("OtherDevice", <<"info">> \o id) >>)

\* None
NoPanel == {}

create_control_panel(chat_id) ==
    LET scripts == get_scripts_for_group(chat_id)
        devices == {scripts[n].device : n \in DOMAIN scripts}
    IN  IF DOMAIN scripts = {} THEN NoPanel
        ELSE {Row(<<>>, d, <<InlineKeyboardButton("Header", <<"device", "info">> \o d)>>) :
                 d \in IF Cardinality(devices) > 1 THEN devices ELSE {}}
             \cup {ScriptRow(n, scripts[n]) : n \in DOMAIN scripts}
             \cup {Row(<<>>, <<>>, << InlineKeyboardButton("Refresh", <<"refresh">>),
                                     InlineKeyboardButton("Settings", <<"settings">>) >>)}

(***************************************************************************)
(* Commands and responses                                                  *)
(***************************************************************************)
NoCur == [key |-> <<>>]

\* the command being handled: who sent it, its kind, the chat it came from
\* and, for a parsed start/stop/status/info payload, f"{script_name}_{device}"
\* (for a payload no branch matches, the payload itself)
Command(user_id, kind, chat_id, key) ==
    [user |-> user_id, kind |-> kind, chat |-> chat_id, key |-> key]

NoCommand == Command("", "none", 0, <<>>)

\* what a command did: the response it gave, the reply_markup that response
\* carried (NoPanel when the call passed none), and whether it called Popen
\* ("none"), and if so whether Popen returned a process ("ok") or raised
\* ("failed")
Result(cmd, r, spawn) == [cmd |-> cmd, out |-> r, spawn |-> spawn, markup |-> NoPanel]

FinishSpawn(cmd, r, spawn) ==
    /\ resp' = Result(cmd, r, spawn)
    /\ pc' = "idle"
    /\ cur' = NoCur

Finish(cmd, r) == FinishSpawn(cmd, r, "none")

\* keyboard = await create_control_panel(chat_id), then the message with
\* reply_markup=keyboard, or the text "No scripts configured" when there is
\* no keyboard (lines 388-399, 248-256)
FinishPanel(cmd, chat_id) ==
    LET keyboard == create_control_panel(chat_id)
    IN  IF keyboard = NoPanel
        THEN Finish(cmd, "NoScripts")
        ELSE /\ resp' = [Result(cmd, "Panel", "none") EXCEPT !.markup = keyboard]
             /\ pc' = "idle"
             /\ cur' = NoCur

NoEffect == UNCHANGED <<running_processes, orphans>>

(***************************************************************************)
(* button: the "start_" branch (lines 494-527)                             *)
(***************************************************************************)
\* variants of the guard: without the device comparison, and comparing the
\* descriptor's device instead of the payload's
StartGuard_NoDevice(script_name, device, scripts) ==
    script_name \in DOMAIN scripts

StartGuard_DescriptorDevice(script_name, device, scripts) ==
    script_name \in DOMAIN scripts /\ scripts[script_name].device = CURRENT_DEVICE

\* if script_info and device == CURRENT_DEVICE
StartGuard(script_name, device, scripts) ==
    script_name \in DOMAIN scripts /\ device = CURRENT_DEVICE

\* variant: no liveness check before the spawn
StartRejects_Never(process_key) == FALSE

\* if process_key in running_processes and running_processes[process_key].poll() is None
StartRejects(process_key) == is_running(process_key)

\* variant: the key is registered before Popen is called
SpawnFails_Recorded(cmd, process_key, tx) ==
    /\ running_processes' =
          Put(running_processes, process_key,
              [status |-> "exited", sig |-> <<>>, cmd |-> "", path |-> "", device |-> <<>>])
    /\ UNCHANGED orphans
    /\ FinishSpawn(cmd, Edit(tx, "StartFailed"), "failed")

\* subprocess.Popen raises: the except clause (lines 524-525)
SpawnFails(cmd, process_key, tx) ==
    NoEffect /\ FinishSpawn(cmd, Edit(tx, "StartFailed"), "failed")

ButtonStart(cmd, chat_id, data, tx, spawnOk) ==
    LET parts == Parts(data)
        scripts == get_scripts_for_group(chat_id)
    IN  IF Len(parts) < 2
        THEN NoEffect /\ Finish(cmd, "NoResponse")
        ELSE
          LET device == DeviceOf(parts)
              script_name == ScriptNameOf(parts)
              process_key == ProcessKey(script_name, device)
          IN  IF StartGuard(script_name, device, scripts)
              THEN IF StartRejects(process_key)
                   THEN NoEffect /\ Finish(cmd, Edit(tx, "AlreadyRunning"))
                   ELSE IF spawnOk
                        THEN LET script_info == scripts[script_name]
                             IN  /\ LiveCount < MaxProcs
                                 /\ running_processes' =
                                        Put(running_processes, process_key,
                                            Popen(PythonCmd(script_info), script_info.path,
                                                  script_info.device))
                                 /\ orphans' = Unreferenced(process_key)
                                 /\ FinishSpawn(cmd, EditTry(tx, "Started", "StartFailed"), "ok")
                        ELSE SpawnFails(cmd, process_key, tx)
              ELSE NoEffect /\ Finish(cmd, Edit(tx, "NotAvailable"))

(***************************************************************************)
(* button: the "stop_" branch up to process.wait(timeout=5)                *)
(* (lines 529-545, 560-565)                                                *)
(***************************************************************************)
\* process.terminate(), process.kill()
Signal(process, sig) == [process EXCEPT !.sig = Append(@, sig)]

\* variant: the forceful signal is sent at once
StopLive_KillFirst(cmd, process_key) ==
    /\ running_processes' =
          [running_processes EXCEPT ![process_key] = Signal(@, "KILL")]
    /\ UNCHANGED orphans
    /\ pc' = "waitkill"
    /\ cur' = [key |-> process_key]
    /\ resp' = Result(cmd, "Pending", "none")

\* variant: the handle is deleted right after terminate(), without the wait
StopLive_NoWait(cmd, process_key) ==
    /\ running_processes' = Drop(running_processes, process_key)
    /\ orphans' = Unreferenced(process_key)
    /\ Finish(cmd, "Stopped")

\* process.terminate() and process.kill() signal an unreaped child of this
\* very process: the signal is delivered or, when the child has just exited,
\* dropped by Popen.send_signal; neither call raises.
StopLive(cmd, process_key) ==
    /\ running_processes' =
          [running_processes EXCEPT ![process_key] = Signal(@, "TERM")]
    /\ UNCHANGED orphans
    /\ pc' = "wait"
    /\ cur' = [key |-> process_key]
    /\ resp' = Result(cmd, "Pending", "none")

\* the else branch of "if process.poll() is None" (lines 562-563)
StopExited(cmd, process_key, tx) ==
    NoEffect /\ Finish(cmd, Edit(tx, "NotRunning"))

\* variant: a missing key is registered as stopped
StopMissing_Records(cmd, process_key, tx) ==
    /\ running_processes' =
          Put(running_processes, process_key,
              [status |-> "exited", sig |-> <<>>, cmd |-> "", path |-> "", device |-> <<>>])
    /\ UNCHANGED orphans
    /\ Finish(cmd, Edit(tx, "NotFound"))

\* the else branch of "if process_key in running_processes" (lines 564-565)
StopMissing(cmd, process_key, tx) ==
    NoEffect /\ Finish(cmd, Edit(tx, "NotFound"))

ButtonStop(cmd, chat_id, data, tx) ==
    LET parts == Parts(data)
    IN  IF Len(parts) < 2
        THEN NoEffect /\ Finish(cmd, "NoResponse")
        ELSE
          LET device == DeviceOf(parts)
              script_name == ScriptNameOf(parts)
              process_key == ProcessKey(script_name, device)
          IN  IF process_key \in DOMAIN running_processes
              THEN IF Alive(running_processes[process_key])
                   THEN StopLive(cmd, process_key)
                   ELSE StopExited(cmd, process_key, tx)
              ELSE StopMissing(cmd, process_key, tx)

(***************************************************************************)
(* button: the branches that only read (lines 386-492)                     *)
(***************************************************************************)
ButtonRead(cmd, chat_id, data, tx) ==
    LET kind == Kind(data)
        scripts == get_scripts_for_group(chat_id)
        parts == Parts(data)
    IN  /\ NoEffect
        /\ IF kind = "refresh"
           THEN FinishPanel(cmd, chat_id)
           ELSE IF kind = "settings" THEN Finish(cmd, "SettingsAlert")
           ELSE IF kind = "device_info" THEN Finish(cmd, "DeviceInfoAlert")
           ELSE IF kind = "status"
                THEN Finish(cmd, IF Len(parts) >= 2 /\ ScriptNameOf(parts) \in DOMAIN scripts
                                 THEN "StatusAlert" ELSE "NoResponse")
           ELSE IF kind = "info"
                THEN Finish(cmd, IF Len(parts) >= 2 /\ ScriptNameOf(parts) \in DOMAIN scripts
                                 THEN "InfoAlert" ELSE "NoResponse")
           ELSE Finish(cmd, "NoResponse")

(***************************************************************************)
(* button (lines 371-565), one callback query handled up to its first      *)
(* blocking wait.  The application is built without concurrent updates     *)
(* (line 580), so a handler starts only when no other handler is running.  *)
(***************************************************************************)
Button(user_id, chat_id, data, tx, spawnOk) ==
    LET kind == Kind(data)
        parts == Parts(data)
        parsed == kind \in {"start", "stop", "status", "info"} /\ Len(parts) >= 2
        cmd == Command(user_id, kind, chat_id,
                       IF user_id \notin AUTHORIZED_USER_IDS THEN <<>>
                       ELSE IF parsed THEN ProcessKey(ScriptNameOf(parts), DeviceOf(parts))
                       ELSE IF kind = "other" THEN data
                       ELSE <<>>)
    IN  /\ pc = "idle"
        \* a failing spawn is an input of the start branch, a failing transport
        \* of the start and stop branches, whose outcome it changes
        /\ ~spawnOk => (kind = "start" /\ user_id \in AUTHORIZED_USER_IDS)
        /\ tx # "ok" => (kind \in {"start", "stop"} /\ user_id \in AUTHORIZED_USER_IDS)
        /\ tx = "edits" => kind = "start"
        /\ UNCHANGED <<CURRENT_DEVICE, config, disk, tasks>>
        /\ IF user_id \notin AUTHORIZED_USER_IDS
           THEN NoEffect /\ Finish(cmd, Edit(tx, "Unauthorized"))
           ELSE IF kind = "start" THEN ButtonStart(cmd, chat_id, data, tx, spawnOk)
           ELSE IF kind = "stop" THEN ButtonStop(cmd, chat_id, data, tx)
           ELSE ButtonRead(cmd, chat_id, data, tx)

(***************************************************************************)
(* button: process.wait(timeout=5) and what follows (lines 545-561).       *)
(* process.wait() is a blocking call made on the event loop: no other      *)
(* handler runs until the stop handler is done.                            *)
(***************************************************************************)
\* variant: the whole registry is cleared
StopDone_Clear(tx) ==
    /\ running_processes' = Empty
    /\ UNCHANGED orphans
    /\ Finish(resp.cmd, EditTry(tx, "Stopped", "StopFailed"))

\* del running_processes[process_key] and the report (lines 551-561)
StopDone(tx) ==
    /\ running_processes' = Drop(running_processes, cur.key)
    /\ orphans' = Unreferenced(cur.key)
    /\ Finish(resp.cmd, EditTry(tx, "Stopped", "StopFailed"))

\* the process exited within the grace period
WaitReturns(tx) ==
    /\ pc = "wait"
    /\ ~Alive(running_processes[cur.key])
    /\ StopDone(tx)
    /\ UNCHANGED <<CURRENT_DEVICE, config, disk, tasks>>

\* variant: on timeout the handler gives up and reports success
WaitTimeout_GiveUp ==
    /\ pc = "wait"
    /\ Alive(running_processes[cur.key])
    /\ StopDone("ok")
    /\ UNCHANGED <<CURRENT_DEVICE, config, disk, tasks>>

\* variant: on timeout the handler waits again without the forceful signal
WaitTimeout_NoKill ==
    /\ pc = "wait"
    /\ Alive(running_processes[cur.key])
    /\ pc' = "waitkill"
    /\ UNCHANGED <<CURRENT_DEVICE, config, disk, tasks, running_processes, orphans, cur, resp>>

\* subprocess.TimeoutExpired: process.kill()
WaitTimeout ==
    /\ pc = "wait"
    /\ Alive(running_processes[cur.key])
    /\ running_processes' = [running_processes EXCEPT ![cur.key] = Signal(@, "KILL")]
    /\ pc' = "waitkill"
    /\ UNCHANGED <<CURRENT_DEVICE, config, disk, tasks, orphans, cur, resp>>

\* process.wait() after the kill returned
WaitKillReturns(tx) ==
    /\ pc = "waitkill"
    /\ ~Alive(running_processes[cur.key])
    /\ StopDone(tx)
    /\ UNCHANGED <<CURRENT_DEVICE, config, disk, tasks>>

(***************************************************************************)
(* The operating system: a child exits (on its own, or because of a signal *)
(* it received)                                                            *)
(***************************************************************************)
ProcExit(process_key, recorded) ==
    /\ IF recorded
       THEN /\ is_running(process_key)
            /\ running_processes' = [running_processes EXCEPT ![process_key].status = "exited"]
            /\ UNCHANGED orphans
       ELSE /\ process_key \in DOMAIN orphans
            /\ orphans' = IF orphans[process_key] = 1 THEN Drop(orphans, process_key)
                          ELSE [orphans EXCEPT ![process_key] = @ - 1]
            /\ UNCHANGED running_processes
    /\ UNCHANGED <<CURRENT_DEVICE, config, disk, tasks, pc, cur, resp>>

(***************************************************************************)
(* /setup_group (lines 258-349) and /start, /menu (lines 208-256)          *)
(***************************************************************************)
ChatTypes == {"group", "private"}

\* config.json: a complete JSON document holding groups, an empty file, or
\* the first part of a document
File(state, groups) == [state |-> state, groups |-> groups]

\* variant: no authorization check
setup_group_NoAuth(user_id, chat_id, chat_type) ==
    /\ pc = "idle"
    /\ NoEffect
    /\ UNCHANGED <<CURRENT_DEVICE, tasks>>
    /\ LET cmd == Command(user_id, "setup_group", chat_id, <<>>)
       IN
       IF chat_type # "group" \/ chat_id \in DOMAIN config
       THEN Finish(cmd, "NotAGroup") /\ UNCHANGED <<config, disk>>
       ELSE /\ config' = Put(config, chat_id, ExampleGroup)
            /\ disk' = File("empty", Empty)
            /\ pc' = "saving"
            /\ cur' = NoCur
            /\ resp' = Result(cmd, "Pending", "none")

\* /setup_group up to open('config.json', 'w') in save_config (line 24),
\* which truncates the file
setup_group(user_id, chat_id, chat_type) ==
    /\ pc = "idle"
    /\ NoEffect
    /\ UNCHANGED <<CURRENT_DEVICE, tasks>>
    /\ LET cmd == Command(user_id, "setup_group", chat_id, <<>>)
           tx == "ok"
       IN
       IF user_id \notin AUTHORIZED_USER_IDS
       THEN Finish(cmd, Edit(tx, "Unauthorized")) /\ UNCHANGED <<config, disk>>
       ELSE IF chat_type # "group"
       THEN Finish(cmd, Edit(tx, "NotAGroup")) /\ UNCHANGED <<config, disk>>
       ELSE IF chat_id \in DOMAIN config
       THEN Finish(cmd, Edit(tx, "AlreadyConfigured")) /\ UNCHANGED <<config, disk>>
       ELSE /\ config' = Put(config, chat_id, ExampleGroup)
            /\ disk' = File("empty", Empty)
            /\ pc' = "saving"
            /\ cur' = NoCur
            /\ resp' = Result(cmd, "Pending", "none")

\* json.dump (line 25) writes the document chunk by chunk: part of it has
\* reached the file
SaveFlush ==
    /\ pc = "saving"
    /\ disk.state = "empty"
    /\ disk' = File("partial", Empty)
    /\ UNCHANGED <<CURRENT_DEVICE, config, tasks, running_processes, orphans, pc, cur, resp>>

\* the with block of save_config is left: the document is complete; then the
\* reply of /setup_group (lines 320-345)
SaveClose ==
    /\ pc = "saving"
    /\ disk' = File("complete", config)
    /\ NoEffect
    /\ Finish(resp.cmd, "SetupComplete")
    /\ UNCHANGED <<CURRENT_DEVICE, config, tasks>>

\* the instance dies (killed, host loses power) while save_config is writing
Crash ==
    /\ pc = "saving"
    /\ pc' = "crashed"
    /\ UNCHANGED <<CURRENT_DEVICE, config, disk, tasks, running_processes, orphans, cur, resp>>

menu(user_id, chat_id) ==
    /\ pc = "idle"
    /\ NoEffect
    /\ UNCHANGED <<CURRENT_DEVICE, config, disk, tasks>>
    /\ LET cmd == Command(user_id, "menu", chat_id, <<>>)
           tx == "ok"
       IN
       IF user_id \notin AUTHORIZED_USER_IDS
       THEN Finish(cmd, Edit(tx, "Unauthorized"))
       ELSE IF chat_id \notin DOMAIN config
       THEN Finish(cmd, Edit(tx, "NotConfigured"))
       ELSE FinishPanel(cmd, chat_id)

(***************************************************************************)
(* Specification                                                           *)
(***************************************************************************)
Init ==
    /\ CURRENT_DEVICE \in DeviceIdentities
    /\ config = InitialGroups
    /\ running_processes = Empty
    /\ orphans = Empty
    /\ pc = "idle"
    /\ cur = NoCur
    /\ resp = Result(NoCommand, "None", "none")
    /\ disk = File("complete", InitialGroups)
    /\ tasks = <<>>

PayloadKeys == {ProcessKey(n, <<d>>) : n \in PayloadNames, d \in PayloadDevices}

Next ==
    \/ \E u \in Users, c \in Chats, d \in Payloads, tx \in Transport, ok \in BOOLEAN :
          Button(u, c, d, tx, ok)
    \/ \E tx \in Transport : WaitReturns(tx)
    \/ WaitTimeout
    \/ \E tx \in Transport : WaitKillReturns(tx)
    \/ \E k \in PayloadKeys, recorded \in BOOLEAN : ProcExit(k, recorded)
    \/ \E u \in Users, c \in Chats, t \in ChatTypes : setup_group(u, c, t)
    \/ SaveFlush
    \/ SaveClose
    \/ Crash
    \/ \E u \in Users, c \in Chats : menu(u, c)

Spec == Init /\ [][Next]_vars

\* The fairness the scheduling gives: a handler that can take its next step
\* takes it, and a process that was sent the forceful signal exits.
Killed(process_key) ==
    /\ is_running(process_key)
    /\ \E i \in DOMAIN running_processes[process_key].sig :
          running_processes[process_key].sig[i] = "KILL"

LiveSpec ==
    /\ Spec
    /\ WF_vars(\E tx \in Transport : WaitReturns(tx))
    /\ WF_vars(WaitTimeout)
    /\ WF_vars(\E tx \in Transport : WaitKillReturns(tx))
    /\ \A k \in PayloadKeys : WF_vars(Killed(k) /\ ProcExit(k, TRUE))

(***************************************************************************)
(* The start branch of button when callback queries are handled            *)
(* concurrently: coroutines on one event loop, which change hands only at  *)
(* an await.  The awaits of the start branch are query.answer() (line 376) *)
(* and the edit_message_text that reports the outcome (lines 507, 516,     *)
(* 525, 527); lines 378-514 between them run without a yield.              *)
(***************************************************************************)
Handlers == {1, 2}

\* start payloads of the concurrent callback queries
ConcPayloads == {d \in Payloads : Kind(d) = "start" /\ Len(Parts(d)) >= 2 /\ DeviceOf(Parts(d)) = <<"mac">>}

FreeTask == [st |-> "free", chat |-> 0, data |-> <<>>, out |-> "None", spawn |-> "none"]

TaskKey(t) == ProcessKey(ScriptNameOf(Parts(t.data)), DeviceOf(Parts(t.data)))

\* a callback query arrives and its handler runs up to await query.answer()
TaskArrive(h, chat_id, data) ==
    /\ tasks[h].st = "free"
    /\ tasks' = [tasks EXCEPT ![h] = [FreeTask EXCEPT !.st = "answering", !.chat = chat_id, !.data = data]]
    /\ UNCHANGED <<CURRENT_DEVICE, config, disk, running_processes, orphans, pc, cur, resp>>

\* variant: the handler yields between the liveness check and Popen
TaskAct_Yielding(h, spawnOk) ==
    LET t == tasks[h]
        parts == Parts(t.data)
        scripts == get_scripts_for_group(t.chat)
        passes == /\ StartGuard(ScriptNameOf(parts), DeviceOf(parts), scripts)
                  /\ ~StartRejects(TaskKey(t))
    IN  \/ /\ t.st = "answering" /\ passes /\ spawnOk
           /\ tasks' = [tasks EXCEPT ![h].st = "checked"]
           /\ UNCHANGED <<CURRENT_DEVICE, config, disk, running_processes, orphans, pc, cur, resp>>
        \/ /\ t.st = "checked" /\ spawnOk
           /\ LiveCount < MaxProcs
           /\ running_processes' =
                  Put(running_processes, TaskKey(t),
                      Popen(PythonCmd(scripts[ScriptNameOf(parts)]), scripts[ScriptNameOf(parts)].path,
                            scripts[ScriptNameOf(parts)].device))
           /\ orphans' = Unreferenced(TaskKey(t))
           /\ tasks' = [tasks EXCEPT ![h] = [t EXCEPT !.st = "editing", !.out = "Started", !.spawn = "ok"]]
           /\ UNCHANGED <<CURRENT_DEVICE, config, disk, pc, cur, resp>>
        \/ /\ t.st = "answering" /\ ~(passes /\ spawnOk)
           /\ ButtonStart(Command("op", "start", t.chat, TaskKey(t)), t.chat, t.data, "ok", spawnOk)
           /\ tasks' = [tasks EXCEPT ![h] = [t EXCEPT !.st = "editing", !.out = resp'.out, !.spawn = resp'.spawn]]
           /\ UNCHANGED <<CURRENT_DEVICE, config, disk>>

\* query.answer() returned: lines 378-514 up to the await of the edit that
\* reports the outcome
TaskAct(h, spawnOk) ==
    LET t == tasks[h]
    IN  /\ t.st = "answering"
        /\ ButtonStart(Command("op", "start", t.chat, TaskKey(t)), t.chat, t.data, "ok", spawnOk)
        /\ tasks' = [tasks EXCEPT ![h] = [t EXCEPT !.st = "editing", !.out = resp'.out, !.spawn = resp'.spawn]]
        /\ UNCHANGED <<CURRENT_DEVICE, config, disk>>

\* the edit returned: the handler is done
TaskDone(h) ==
    /\ tasks[h].st = "editing"
    /\ tasks' = [tasks EXCEPT ![h] = FreeTask]
    /\ UNCHANGED <<CURRENT_DEVICE, config, disk, running_processes, orphans, pc, cur, resp>>

ConcInit ==
    /\ CURRENT_DEVICE \in DeviceIdentities
    /\ config = InitialGroups
    /\ running_processes = Empty
    /\ orphans = Empty
    /\ pc = "idle"
    /\ cur = NoCur
    /\ resp = Result(NoCommand, "None", "none")
    /\ disk = File("complete", InitialGroups)
    /\ tasks = [h \in Handlers |-> FreeTask]

ConcNext ==
    \/ \E h \in Handlers, c \in Chats, d \in ConcPayloads : TaskArrive(h, c, d)
    \/ \E h \in Handlers, ok \in BOOLEAN : TaskAct(h, ok)
    \/ \E h \in Handlers : TaskDone(h)
    \/ \E k \in PayloadKeys, recorded \in BOOLEAN : ProcExit(k, recorded)

ConcSpec == ConcInit /\ [][ConcNext]_vars

TypeOK ==
    /\ pc \in {"idle", "wait", "waitkill", "saving", "crashed"}
    /\ pc \in {"wait", "waitkill"} => cur.key \in DOMAIN running_processes
    /\ tasks = <<>>

(***************************************************************************)
(* Properties                                                              *)
(***************************************************************************)
\* the step is the exit of a child, not a step of a handler
IsExit == \E k \in PayloadKeys, recorded \in BOOLEAN : ProcExit(k, recorded)

\* the step handles a command from its arrival (resp' describes it)
Handles(kinds) == pc = "idle" /\ ~IsExit /\ resp'.cmd.kind \in kinds /\ resp'.cmd.key # <<>>

\* the script name of the command is configured for the chat it came from
Configured(cmd) ==
    ScriptNameOf(cmd.key) \in DOMAIN get_scripts_for_group(cmd.chat)

RegistryUntouched == running_processes' = running_processes /\ orphans' = orphans

\* C1: a start command for a key whose recorded process is alive spawns
\* nothing and leaves the registry as it is, and what it reports for a script
\* configured in the issuing chat is AlreadyRunning.
C1_StartOnRunningRejected ==
    [][(Handles({"start"}) /\ is_running(resp'.cmd.key))
        => /\ RegistryUntouched
           /\ pc' = "idle"
           /\ resp'.out \in {"AlreadyRunning", "NotAvailable", "Raised"}
           /\ Configured(resp'.cmd) => resp'.out \in {"AlreadyRunning", "Raised"}]_vars

C1_Witness ==
    /\ resp.cmd.kind = "start"
    /\ resp.out = "AlreadyRunning"
    /\ is_running(resp.cmd.key)

\* C2: every key recorded in the registry ends in the device label of this
\* instance.
C2_RecordedKeysOwnDevice ==
    \A k \in DOMAIN running_processes : DeviceOf(k) = CURRENT_DEVICE

C2_Witness ==
    /\ resp.cmd.kind = "start"
    /\ resp.cmd.key # <<>>
    /\ DeviceOf(resp.cmd.key) # CURRENT_DEVICE
    /\ resp.out = "NotAvailable"
    /\ Configured(resp.cmd)
    /\ \E k \in DOMAIN running_processes : is_running(k)

\* C3: a start or stop command whose device label is not this instance's
\* identity leaves the registry, the set of children and the signals sent
\* to them as they were.
C3_ForeignDeviceNoEffect ==
    [][(Handles({"start", "stop"}) /\ DeviceOf(resp'.cmd.key) # CURRENT_DEVICE)
        => RegistryUntouched /\ pc' = "idle"]_vars

C3_Witness ==
    /\ resp.cmd.kind = "stop"
    /\ resp.cmd.key # <<>>
    /\ DeviceOf(resp.cmd.key) # CURRENT_DEVICE
    /\ resp.out = "NotFound"
    /\ is_running(ProcessKey(ScriptNameOf(resp.cmd.key), CURRENT_DEVICE))

\* C4: a start that reports success leaves its key running, and a running
\* key stops running only by the exit of its process or in a step of a stop
\* command for that key.
RunningNext(k) ==
    k \in DOMAIN running_processes' /\ running_processes'[k].status = "alive"

StopStepFor(k) ==
    \/ pc # "idle" /\ cur.key = k
    \/ pc = "idle" /\ resp'.cmd.kind = "stop" /\ resp'.cmd.key = k

C4_RunningUntilStopOrExit ==
    /\ [][(Handles({"start"}) /\ resp'.out = "Started") => RunningNext(resp'.cmd.key)]_vars
    /\ [][\A k \in PayloadKeys :
            (is_running(k) /\ ~RunningNext(k)) => (ProcExit(k, TRUE) \/ StopStepFor(k))]_vars

C4_Witness ==
    /\ resp.cmd.kind = "stop"
    /\ resp.out = "Stopped"
    /\ \E k \in DOMAIN running_processes : k # resp.cmd.key /\ is_running(k)

\* C5: after a stop command was answered NotRunning, the registry has no
\* entry for its key.
C5_StaleHandleRemoved ==
    (pc = "idle" /\ resp.cmd.kind = "stop" /\ resp.out = "NotRunning")
        => resp.cmd.key \notin DOMAIN running_processes

\* C6: a stop command for a key with no recorded handle is answered NotFound
\* and changes nothing in the registry.
C6_StopMissingNotFound ==
    [][(Handles({"stop"}) /\ resp'.cmd.key \notin DOMAIN running_processes)
        => /\ resp'.out \in {"NotFound", "Raised"}
           /\ RegistryUntouched
           /\ pc' = "idle"]_vars

C6_Witness ==
    /\ resp.cmd.kind = "stop"
    /\ resp.out = "NotFound"
    /\ resp.cmd.key \notin DOMAIN running_processes
    /\ DeviceOf(resp.cmd.key) = CURRENT_DEVICE
    /\ running_processes # Empty

\* C7: when a stop command has reported success, its process has exited and
\* the registry has no handle for its key, so the key is not running.
C7_StoppedMeansGone ==
    (pc = "idle" /\ resp.cmd.kind = "stop" /\ resp.out = "Stopped")
        => /\ resp.cmd.key \notin DOMAIN running_processes
           /\ resp.cmd.key \notin DOMAIN orphans
           /\ ~is_running(resp.cmd.key)

C7_Witness ==
    /\ pc = "idle"
    /\ resp.cmd.kind = "stop"
    /\ resp.out = "Stopped"

\* C8: the signals sent to a process are the graceful one, or the graceful
\* one followed by the forceful one; the forceful one is sent only to a
\* process still alive at the grace timeout; a handle is removed only once
\* its process has exited.
SignalOrder ==
    \A k \in DOMAIN running_processes :
        running_processes[k].sig \in {<<>>, <<"TERM">>, <<"TERM", "KILL">>}

KillSent(k) ==
    /\ k \in DOMAIN running_processes /\ k \in DOMAIN running_processes'
    /\ Len(running_processes'[k].sig) > Len(running_processes[k].sig)
    /\ running_processes'[k].sig[Len(running_processes'[k].sig)] = "KILL"

C8_GracefulThenForceful ==
    /\ []SignalOrder
    /\ [][\A k \in PayloadKeys :
            /\ KillSent(k) => (pc = "wait" /\ cur.key = k /\ Alive(running_processes[k]))
            /\ (k \in DOMAIN running_processes /\ k \notin DOMAIN running_processes')
                  => ~Alive(running_processes[k])]_vars

C8_Witness ==
    /\ pc = "waitkill"
    /\ running_processes[cur.key].sig = <<"TERM", "KILL">>

\* C9: a stop handler that is waiting for its process returns.
C9_StopReturns == (pc \in {"wait", "waitkill"}) ~> (pc = "idle")

C9_Witness ==
    /\ pc = "waitkill"
    /\ ~Alive(running_processes[cur.key])

\* C10: a start command for a configured script whose path does not exist on
\* this device spawns nothing, records nothing and does not report success.
C10_MissingPathRejected ==
    [][(/\ Handles({"start"})
        /\ Configured(resp'.cmd)
        /\ get_scripts_for_group(resp'.cmd.chat)[ScriptNameOf(resp'.cmd.key)].path
              \notin ExistingPaths)
        => RegistryUntouched /\ resp'.out # "Started"]_vars

\* the step handles a command from its arrival (resp' describes it), whatever
\* its kind
HandlesAny == pc = "idle" /\ ~IsExit

\* C11: a start command whose call of Popen raises reports the failure,
\* records no handle and leaves every entry of the registry as it was.
C11_FailedSpawnRecordsNothing ==
    [][(Handles({"start"}) /\ resp'.spawn = "failed")
        => /\ RegistryUntouched
           /\ pc' = "idle"
           /\ resp'.out \in {"StartFailed", "Raised"}]_vars

C11_Witness ==
    /\ resp.cmd.kind = "start"
    /\ resp.spawn = "failed"
    /\ resp.out = "StartFailed"
    /\ resp.cmd.key \notin DOMAIN running_processes
    /\ \E k \in DOMAIN running_processes : is_running(k)

\* C12: a command of any kind (button callback, /start, /menu,
\* /setup_group) from a user not on the allow-list is answered with the
\* rejection and changes neither the registry nor the configuration, in
\* memory or on disk; nothing is spawned or signalled.
C12_UnauthorizedNoEffect ==
    [][(HandlesAny /\ resp'.cmd.user \notin AUTHORIZED_USER_IDS)
        => /\ resp'.out = "Unauthorized"
           /\ RegistryUntouched
           /\ config' = config
           /\ disk' = disk
           /\ pc' = "idle"]_vars

C12_Witness ==
    /\ resp.cmd.user \notin AUTHORIZED_USER_IDS
    /\ resp.cmd.kind = "stop"
    /\ resp.out = "Unauthorized"
    /\ \E k \in DOMAIN running_processes : is_running(k)

\* the buttons of the row a panel has for a descriptor
ButtonTexts(row) == {row.buttons[i].text : i \in DOMAIN row.buttons}

ScriptRows(chat_id) == {row \in create_control_panel(chat_id) : row.script # <<>>}

\* C13: a panel has a start button only for a descriptor whose device is
\* the identity of this instance.
C13_StartOnlyOwnDevice ==
    \A c \in Chats : \A row \in ScriptRows(c) :
        "Start" \in ButtonTexts(row) => row.device = CURRENT_DEVICE

\* the device selected for a group: the field of its configuration, and this
\* instance's identity while the field is not set
SelectedDevice(chat_id) ==
    IF "selected_device" \in DOMAIN config[chat_id]
    THEN config[chat_id].selected_device
    ELSE CURRENT_DEVICE

\* C14: the row of a descriptor has the toggle (start when its key is not
\* running, stop when it is) exactly when the descriptor's device is both
\* this instance's identity and the device selected for the group;
\* otherwise it has no start or stop button and a status indicator that
\* shows whether the key is running.
C14_ToggleIffOwnAndSelected ==
    \A c \in DOMAIN config : \A row \in ScriptRows(c) :
        LET running == is_running(ProcessKey(row.script, row.device))
            texts == ButtonTexts(row)
        IN  IF row.device = CURRENT_DEVICE /\ row.device = SelectedDevice(c)
            THEN IF running THEN "Stop" \in texts /\ "Start" \notin texts
                            ELSE "Start" \in texts /\ "Stop" \notin texts
            ELSE /\ "Start" \notin texts /\ "Stop" \notin texts
                 /\ (IF running THEN "Running" ELSE "Stopped") \in texts

\* the start, stop and status buttons of a row are read back as their own
\* action, script name and device
ReadsBack(row) ==
    \A i \in DOMAIN row.buttons :
        LET b == row.buttons[i]
            parts == Parts(b.data)
        IN  b.text \in {"Start", "Stop", "Running", "Stopped"}
            => /\ Kind(b.data) = (CASE b.text = "Start" -> "start"
                                    [] b.text = "Stop" -> "stop"
                                    [] OTHER -> "status")
               /\ Len(parts) >= 2
               /\ ScriptNameOf(parts) = row.script
               /\ DeviceOf(parts) = row.device

\* C16 as claimed: the start, stop and status payloads a panel has for any
\* descriptor are parsed back to the descriptor's script name and device.
C16_RoundTripAnyDevice ==
    \A c \in Chats : \A row \in ScriptRows(c) : ReadsBack(row)

\* C16: the start, stop and status payloads a panel has for a descriptor
\* whose device label has no underscore are parsed back to the descriptor's
\* script name and device, whatever underscores the script name has.
C16_RoundTrip ==
    \A c \in Chats : \A row \in ScriptRows(c) :
        Len(row.device) = 1 => ReadsBack(row)

C16_Witness ==
    \E c \in Chats :
        /\ \E row \in ScriptRows(c) :
              Len(row.script) > 1 /\ Len(row.device) = 1 /\ "Start" \in ButtonTexts(row)
        /\ \E row \in ScriptRows(c) : "Stop" \in ButtonTexts(row)

\* the command is the payload select_device_<d>
IsSelectDevice(cmd) ==
    /\ cmd.kind = "other"
    /\ Len(cmd.key) = 3
    /\ cmd.key[1] = "select" /\ cmd.key[2] = "device"

\* C15: a select_device_<d> command of an authorized operator in a
\* configured group sets the group's selected device to d, changes nothing
\* else in the configuration and leaves the registry as it was.
C15_SelectDeviceSetsField ==
    [][(HandlesAny /\ IsSelectDevice(resp'.cmd) /\ resp'.cmd.chat \in DOMAIN config)
        => LET c == resp'.cmd.chat
           IN  /\ DOMAIN config' = DOMAIN config
               /\ "selected_device" \in DOMAIN config'[c]
               /\ config'[c].selected_device = DeviceOf(resp'.cmd.key)
               /\ config'[c].scripts = config[c].scripts
               /\ config'[c].name = config[c].name
               /\ \A g \in DOMAIN config \ {c} : config'[g] = config[g]
               /\ RegistryUntouched]_vars

\* C17: a start or stop command naming a script that is not configured for
\* the chat it comes from changes nothing in the registry and signals no
\* process, whatever other chats have running under the same key.
C17_UnconfiguredNoEffect ==
    [][(Handles({"start", "stop"}) /\ ~Configured(resp'.cmd))
        => RegistryUntouched /\ pc' = "idle"]_vars

\* a start or stop command of an operator for a key other than k can be
\* handled now
CanHandleOther(k) ==
    ENABLED (\E c \in Chats, d \in Payloads :
                /\ Kind(d) \in {"start", "stop"}
                /\ Len(Parts(d)) >= 2
                /\ ProcessKey(ScriptNameOf(Parts(d)), DeviceOf(Parts(d))) # k
                /\ Button("op", c, d, "ok", TRUE))

\* C19: while the stop handler of one key waits for its process, a start or
\* stop command for another key can be handled.
C19_WaitDoesNotBlockOtherKeys ==
    pc \in {"wait", "waitkill"} => CanHandleOther(cur.key)

\* C20: a crash while the configuration is being written leaves config.json
\* a complete document, the one from before the write or the new one.
C20_CrashLeavesCompleteFile ==
    pc = "crashed"
        => /\ disk.state = "complete"
           /\ disk.groups \in {config, Drop(config, resp.cmd.chat)}

\* two handlers of start commands for one key are in flight
Concurrent(h1, h2) ==
    /\ h1 # h2
    /\ tasks[h1].st # "free" /\ tasks[h2].st # "free"
    /\ TaskKey(tasks[h1]) = TaskKey(tasks[h2])

\* C18 as claimed: of two start commands for one key handled concurrently,
\* at most one spawns a process and records a handle.
C18_AtMostOneSpawns ==
    \A h1, h2 \in Handlers :
        Concurrent(h1, h2) => ~(tasks[h1].spawn = "ok" /\ tasks[h2].spawn = "ok")

\* handler h runs from the return of query.answer() to its next await
ActsNow(h) == tasks[h].st = "answering" /\ tasks'[h].st = "editing"

\* C18: of two start commands for one key handled concurrently, the one
\* that finds the key's process alive spawns nothing, leaves the registry as
\* it is and is rejected as AlreadyRunning when the script is configured in
\* its chat; a handler spawns only when the key is not running, so the
\* registry never loses the handle of a live process and a key never has two
\* live processes.
C18_ConcurrentStartsOneLive ==
    /\ [](orphans = Empty)
    /\ [][\A h \in Handlers :
            (ActsNow(h) /\ is_running(TaskKey(tasks[h])))
               => /\ RegistryUntouched
                  /\ tasks'[h].spawn = "none"
                  /\ tasks'[h].out \in {"AlreadyRunning", "NotAvailable"}
                  /\ ScriptNameOf(Parts(tasks[h].data)) \in DOMAIN get_scripts_for_group(tasks[h].chat)
                        => tasks'[h].out = "AlreadyRunning"]_vars

C18_Witness ==
    \E h1, h2 \in Handlers :
        /\ Concurrent(h1, h2)
        /\ tasks[h1].st = "editing" /\ tasks[h1].spawn = "ok" /\ tasks[h1].out = "Started"
        /\ tasks[h2].st = "editing" /\ tasks[h2].spawn = "none" /\ tasks[h2].out = "AlreadyRunning"
        /\ is_running(TaskKey(tasks[h1]))

\* the step hands the transport the response of a command of one of the
\* kinds: the handler's last edit_message_text returned
Answers(kinds) ==
    /\ ~IsExit
    /\ pc \in {"idle", "wait", "waitkill"}
    /\ pc' = "idle"
    /\ resp'.cmd.kind \in kinds
    /\ resp'.cmd.key # <<>>
    /\ resp'.out \notin {"Raised", "NoResponse"}

\* C21: the response to a start or stop command, accepted or rejected,
\* carries the keyboard of the command's chat as it is derived from the
\* registry after the command.
C21_ResponseCarriesPanel ==
    [][\A c \in Chats :
          (Answers({"start", "stop"}) /\ resp'.cmd.chat = c)
             => resp'.markup = create_control_panel(c)']_vars

\* live children of this instance that were started for key k
LiveUnder(k) ==
    (IF is_running(k) THEN 1 ELSE 0) + (IF k \in DOMAIN orphans THEN orphans[k] ELSE 0)

\* C22: every live child is the process of the handle recorded under the
\* key it was started for, so no key has more than one live child.
C22_LiveProcessesReferenced ==
    \A k \in PayloadKeys : k \notin DOMAIN orphans /\ LiveUnder(k) <= 1

C22_Witness ==
    /\ pc = "idle"
    /\ resp.cmd.kind = "stop"
    /\ resp.out = "StopFailed"
    /\ resp.cmd.key \notin DOMAIN running_processes
    /\ \E k \in DOMAIN running_processes : is_running(k)
    /\ \E k \in DOMAIN running_processes : ~is_running(k)

\* C23: the descriptor a start command launches has the device label of
\* the command.
C23_LaunchedDescriptorOwnDevice ==
    [][(Handles({"start"}) /\ resp'.spawn = "ok")
        => running_processes'[resp'.cmd.key].device = DeviceOf(resp'.cmd.key)]_vars

\* C24: a start command answered with the failure report recorded no handle
\* and left no process of its own running, and a stop command answered
\* with the failure report leaves the handle of its key recorded.
C24_ReportAgreesWithRegistry ==
    /\ [][(Answers({"start"}) /\ resp'.out = "StartFailed")
            => resp'.spawn # "ok" /\ RegistryUntouched]_vars
    /\ [][(Answers({"stop"}) /\ resp'.out = "StopFailed")
            => resp'.cmd.key \in DOMAIN running_processes']_vars

====
